---- MODULE Spec2Model ----
(***************************************************************************)
(* Catalog cache, identifier shortener, token resolution, tag normalizer, *)
(* tag and price filters and product lists of the flower shop bot          *)
(* (src/main.py).                                                          *)
(*                                                                         *)
(* Strings are sequences of one-character strings, so that len() (a count  *)
(* of characters) and the encoded size in bytes can differ.  Time is the   *)
(* value of time.time() in whole seconds.                                  *)
(***************************************************************************)
EXTENDS Integers, Sequences, FiniteSets, TLC

VARIABLES clock, ticks, shop, context, out, enc, norm, flt, btn

vars == <<clock, ticks, shop, context, out, enc, norm, flt, btn>>

-----------------------------------------------------------------------------
(* Bounds of the model *)

\* number of clock advances in one behaviour
MaxTicks == 3
\* longest identifier / prefix handed to safe_callback_data in SpecEncode
MaxIdLen == 64
MaxPrefixLen == 8
\* clock advances in one behaviour of SpecDetail
MaxDetailTicks == 1
\* length of the identifiers of SpecDetail that exceed the budget of 56
LongLen == 60
\* longest tag and number of edits between the two tags of SpecNormalize
MaxTagLen == 3
MaxEdits == 2
MaxProducts == 3
MaxPriced == 2
MaxHandlerTicks == 1

(* Program constants *)
TTL == 600
CallbackLimit == 64
HashLen == 8

SHOPIFY_ENABLED == TRUE

-----------------------------------------------------------------------------
(* Strings *)

Rep(c, n) == [i \in 1..n |-> c]

\* characters that take two bytes in UTF-8 (e-acute, Cyrillic zhe), named by
\* their code points
WideChars == {"U+00E9", "U+0436"}

\* len(s.encode()): the size of s in bytes
ByteLen(s) == Len(s) + Cardinality({i \in 1..Len(s) : s[i] \in WideChars})

HexDigits == <<"0","1","2","3","4","5","6","7","8","9","a","b","c","d","e","f">>

Alphabet == HexDigits \o <<"-", "_", "r", "o", "s", "x", "p", "u", "t", "U+00E9", "U+0436">>

Code(c) == CHOOSE k \in 1..Len(Alphabet) : Alphabet[k] = c

Count(s, c) == Cardinality({i \in 1..Len(s) : s[i] = c})

RECURSIVE WeightedCount(_, _)
WeightedCount(s, chars) ==
  IF chars = {} THEN 0
  ELSE LET c == CHOOSE x \in chars : TRUE
       IN Code(c) * Count(s, c) + WeightedCount(s, chars \ {c})

\* the sum of the codes of the characters of s
CodeSum(s) == WeightedCount(s, {s[i] : i \in 1..Len(s)})

Pow16(k) == CASE k = 0 -> 1 [] k = 1 -> 16 [] k = 2 -> 256 [] k = 3 -> 4096
              [] k = 4 -> 65536 [] k = 5 -> 1048576 [] k = 6 -> 16777216
              [] k = 7 -> 268435456

\* hexdigest()[:8]: eight lowercase hexadecimal characters
Hex8(v) == [i \in 1..HashLen |-> HexDigits[((v \div Pow16(HashLen - i)) % 16) + 1]]

\* hashlib.sha1(data.encode()).hexdigest()[:8].  The digest is a fixed
\* function of the string with a fixed output format; distinct strings may
\* share a digest.  The model keeps those three facts with a checksum over
\* the characters (strings with the same characters collide).
Sha1Hex8(s) == Hex8((CodeSum(s) * 40503) % 1048576)

\* index of the first "_" of s, 0 when there is none
FirstUnderscore(s) ==
  IF \E i \in 1..Len(s) : s[i] = "_"
  THEN CHOOSE i \in 1..Len(s) :
         s[i] = "_" /\ \A j \in 1..(i - 1) : s[j] # "_"
  ELSE 0

\* s.split('_', 1)
SplitFirst(s) ==
  LET k == FirstUnderscore(s)
  IN IF k = 0 THEN <<s>>
     ELSE <<SubSeq(s, 1, k - 1), SubSeq(s, k + 1, Len(s))>>

-----------------------------------------------------------------------------
(* Tag normalizer *)

UpperCase == <<"A","B","C","D","E","F","G","H","I","J","K","L","M",
               "N","O","P","Q","R","S","T","U","V","W","X","Y","Z">>
LowerCase == <<"a","b","c","d","e","f","g","h","i","j","k","l","m",
               "n","o","p","q","r","s","t","u","v","w","x","y","z">>

\* the characters str.strip() removes from both ends
Whitespace == {" ", "\t", "\n", "\r"}

LowerChar(c) ==
  IF \E k \in 1..26 : UpperCase[k] = c
  THEN LowerCase[CHOOSE k \in 1..26 : UpperCase[k] = c]
  ELSE c

\* str.lower()
Lower(s) == [i \in 1..Len(s) |-> LowerChar(s[i])]

\* str.strip()
Strip(s) ==
  LET keep == {i \in 1..Len(s) : s[i] \notin Whitespace}
  IN IF keep = {} THEN <<>>
     ELSE SubSeq(s, CHOOSE i \in keep : \A j \in keep : i <= j,
                    CHOOSE i \in keep : \A j \in keep : j <= i)

\* str.replace(c, "")
Remove(s, c) == SelectSeq(s, LAMBDA x : x # c)

normalize_tag(tag) ==
  Remove(Remove(Remove(Strip(Lower(tag)), " "), "-"), "'")

-----------------------------------------------------------------------------
(* Synonym table and tag filter *)

\* TAG_MAPPINGS whose entry for "roses" lost the key itself
TAG_MAPPINGS_rose_only ==
  <<"u", "n", "d", "e", "r", "5", "0">> :>
     <<<<"u", "n", "d", "e", "r", "5", "0">>,
       <<"u", "n", "d", "e", "r", " ", "5", "0">>,
       <<"c", "h", "e", "a", "p">>,
       <<"b", "u", "d", "g", "e", "t">>>> @@
  <<"5", "0", "-", "1", "5", "0">> :>
     <<<<"5", "0", "-", "1", "5", "0">>,
       <<"5", "0", " ", "t", "o", " ", "1", "5", "0">>,
       <<"m", "i", "d", "r", "a", "n", "g", "e">>,
       <<"a", "f", "f", "o", "r", "d", "a", "b", "l", "e">>>> @@
  <<"1", "5", "1", "-", "2", "5", "0">> :>
     <<<<"1", "5", "1", "-", "2", "5", "0">>,
       <<"1", "5", "1", " ", "t", "o", " ", "2", "5", "0">>,
       <<"p", "r", "e", "m", "i", "u", "m">>>> @@
  <<"o", "v", "e", "r", "2", "5", "0">> :>
     <<<<"o", "v", "e", "r", "2", "5", "0">>,
       <<"o", "v", "e", "r", " ", "2", "5", "0">>,
       <<"l", "u", "x", "u", "r", "y">>>> @@
  <<"a", "n", "n", "i", "v", "e", "r", "s", "a", "r", "y">> :>
     <<<<"a", "n", "n", "i", "v", "e", "r", "s", "a", "r", "y">>,
       <<"a", "n", "n", "i", "v", "e", "r", "s", "a", "r", "i", "e", "s">>>> @@
  <<"v", "a", "l", "e", "n", "t", "i", "n", "e">> :>
     <<<<"v", "a", "l", "e", "n", "t", "i", "n", "e">>,
       <<"v", "a", "l", "e", "n", "t", "i", "n", "e", "s">>,
       <<"v", "a", "l", "e", "n", "t", "i", "n", "e", "'", "s", " ", "d", "a", "y">>>> @@
  <<"r", "o", "m", "a", "n", "t", "i", "c">> :>
     <<<<"r", "o", "m", "a", "n", "t", "i", "c">>,
       <<"r", "o", "m", "a", "n", "c", "e">>,
       <<"l", "o", "v", "e">>>> @@
  <<"g", "e", "t", "w", "e", "l", "l">> :>
     <<<<"g", "e", "t", "w", "e", "l", "l">>,
       <<"g", "e", "t", " ", "w", "e", "l", "l">>,
       <<"r", "e", "c", "o", "v", "e", "r", "y">>,
       <<"f", "e", "e", "l", " ", "b", "e", "t", "t", "e", "r">>>> @@
  <<"w", "e", "d", "d", "i", "n", "g">> :>
     <<<<"w", "e", "d", "d", "i", "n", "g">>,
       <<"b", "r", "i", "d", "a", "l">>,
       <<"b", "r", "i", "d", "e", "s", "m", "a", "i", "d">>>> @@
  <<"b", "i", "r", "t", "h", "d", "a", "y">> :>
     <<<<"b", "i", "r", "t", "h", "d", "a", "y">>,
       <<"b", "d", "a", "y">>,
       <<"b", "i", "r", "t", "h", "d", "a", "y", "s">>>> @@
  <<"f", "a", "t", "h", "e", "r", "s", "d", "a", "y">> :>
     <<<<"f", "a", "t", "h", "e", "r", "s", "d", "a", "y">>,
       <<"f", "a", "t", "h", "e", "r", "'", "s", " ", "d", "a", "y">>,
       <<"d", "a", "d">>>> @@
  <<"r", "o", "s", "e", "s">> :>
     <<<<"r", "o", "s", "e">>>> @@
  <<"l", "i", "l", "i", "e", "s">> :>
     <<<<"l", "i", "l", "i", "e", "s">>,
       <<"l", "i", "l", "y">>>> @@
  <<"t", "u", "l", "i", "p", "s">> :>
     <<<<"t", "u", "l", "i", "p", "s">>,
       <<"t", "u", "l", "i", "p">>>> @@
  <<"o", "r", "c", "h", "i", "d", "s">> :>
     <<<<"o", "r", "c", "h", "i", "d", "s">>,
       <<"o", "r", "c", "h", "i", "d">>>> @@
  <<"s", "u", "n", "f", "l", "o", "w", "e", "r", "s">> :>
     <<<<"s", "u", "n", "f", "l", "o", "w", "e", "r", "s">>,
       <<"s", "u", "n", "f", "l", "o", "w", "e", "r">>>> @@
  <<"m", "i", "x", "e", "d">> :>
     <<<<"m", "i", "x", "e", "d">>,
       <<"a", "s", "s", "o", "r", "t", "e", "d">>,
       <<"v", "a", "r", "i", "e", "t", "y">>>>

TAG_MAPPINGS ==
  <<"u", "n", "d", "e", "r", "5", "0">> :>
     <<<<"u", "n", "d", "e", "r", "5", "0">>,
       <<"u", "n", "d", "e", "r", " ", "5", "0">>,
       <<"c", "h", "e", "a", "p">>,
       <<"b", "u", "d", "g", "e", "t">>>> @@
  <<"5", "0", "-", "1", "5", "0">> :>
     <<<<"5", "0", "-", "1", "5", "0">>,
       <<"5", "0", " ", "t", "o", " ", "1", "5", "0">>,
       <<"m", "i", "d", "r", "a", "n", "g", "e">>,
       <<"a", "f", "f", "o", "r", "d", "a", "b", "l", "e">>>> @@
  <<"1", "5", "1", "-", "2", "5", "0">> :>
     <<<<"1", "5", "1", "-", "2", "5", "0">>,
       <<"1", "5", "1", " ", "t", "o", " ", "2", "5", "0">>,
       <<"p", "r", "e", "m", "i", "u", "m">>>> @@
  <<"o", "v", "e", "r", "2", "5", "0">> :>
     <<<<"o", "v", "e", "r", "2", "5", "0">>,
       <<"o", "v", "e", "r", " ", "2", "5", "0">>,
       <<"l", "u", "x", "u", "r", "y">>>> @@
  <<"a", "n", "n", "i", "v", "e", "r", "s", "a", "r", "y">> :>
     <<<<"a", "n", "n", "i", "v", "e", "r", "s", "a", "r", "y">>,
       <<"a", "n", "n", "i", "v", "e", "r", "s", "a", "r", "i", "e", "s">>>> @@
  <<"v", "a", "l", "e", "n", "t", "i", "n", "e">> :>
     <<<<"v", "a", "l", "e", "n", "t", "i", "n", "e">>,
       <<"v", "a", "l", "e", "n", "t", "i", "n", "e", "s">>,
       <<"v", "a", "l", "e", "n", "t", "i", "n", "e", "'", "s", " ", "d", "a", "y">>>> @@
  <<"r", "o", "m", "a", "n", "t", "i", "c">> :>
     <<<<"r", "o", "m", "a", "n", "t", "i", "c">>,
       <<"r", "o", "m", "a", "n", "c", "e">>,
       <<"l", "o", "v", "e">>>> @@
  <<"g", "e", "t", "w", "e", "l", "l">> :>
     <<<<"g", "e", "t", "w", "e", "l", "l">>,
       <<"g", "e", "t", " ", "w", "e", "l", "l">>,
       <<"r", "e", "c", "o", "v", "e", "r", "y">>,
       <<"f", "e", "e", "l", " ", "b", "e", "t", "t", "e", "r">>>> @@
  <<"w", "e", "d", "d", "i", "n", "g">> :>
     <<<<"w", "e", "d", "d", "i", "n", "g">>,
       <<"b", "r", "i", "d", "a", "l">>,
       <<"b", "r", "i", "d", "e", "s", "m", "a", "i", "d">>>> @@
  <<"b", "i", "r", "t", "h", "d", "a", "y">> :>
     <<<<"b", "i", "r", "t", "h", "d", "a", "y">>,
       <<"b", "d", "a", "y">>,
       <<"b", "i", "r", "t", "h", "d", "a", "y", "s">>>> @@
  <<"f", "a", "t", "h", "e", "r", "s", "d", "a", "y">> :>
     <<<<"f", "a", "t", "h", "e", "r", "s", "d", "a", "y">>,
       <<"f", "a", "t", "h", "e", "r", "'", "s", " ", "d", "a", "y">>,
       <<"d", "a", "d">>>> @@
  <<"r", "o", "s", "e", "s">> :>
     <<<<"r", "o", "s", "e", "s">>,
       <<"r", "o", "s", "e">>>> @@
  <<"l", "i", "l", "i", "e", "s">> :>
     <<<<"l", "i", "l", "i", "e", "s">>,
       <<"l", "i", "l", "y">>>> @@
  <<"t", "u", "l", "i", "p", "s">> :>
     <<<<"t", "u", "l", "i", "p", "s">>,
       <<"t", "u", "l", "i", "p">>>> @@
  <<"o", "r", "c", "h", "i", "d", "s">> :>
     <<<<"o", "r", "c", "h", "i", "d", "s">>,
       <<"o", "r", "c", "h", "i", "d">>>> @@
  <<"s", "u", "n", "f", "l", "o", "w", "e", "r", "s">> :>
     <<<<"s", "u", "n", "f", "l", "o", "w", "e", "r", "s">>,
       <<"s", "u", "n", "f", "l", "o", "w", "e", "r">>>> @@
  <<"m", "i", "x", "e", "d">> :>
     <<<<"m", "i", "x", "e", "d">>,
       <<"a", "s", "s", "o", "r", "t", "e", "d">>,
       <<"v", "a", "r", "i", "e", "t", "y">>>>

\* TAG_MAPPINGS.get(filter_value, []): no fallback to the key
possible_tags_nodefault(filter_value) ==
  IF filter_value \in DOMAIN TAG_MAPPINGS THEN TAG_MAPPINGS[filter_value]
  ELSE <<>>

\* TAG_MAPPINGS.get(filter_value, [filter_value])
possible_tags(filter_value) ==
  IF filter_value \in DOMAIN TAG_MAPPINGS THEN TAG_MAPPINGS[filter_value]
  ELSE <<filter_value>>

Map(f(_), s) == [i \in 1..Len(s) |-> f(s[i])]

Range(s) == {s[i] : i \in 1..Len(s)}

\* index of the first "," of s, 0 when there is none
FirstComma(s) ==
  IF \E i \in 1..Len(s) : s[i] = ","
  THEN CHOOSE i \in 1..Len(s) : s[i] = "," /\ \A j \in 1..(i - 1) : s[j] # ","
  ELSE 0

\* s.split(',')
RECURSIVE SplitComma(_)
SplitComma(s) ==
  LET k == FirstComma(s)
  IN IF k = 0 THEN <<s>>
     ELSE <<SubSeq(s, 1, k - 1)>> \o SplitComma(SubSeq(s, k + 1, Len(s)))

\* the tags field of a product: a list of tags, one comma-delimited string,
\* or no such key
TagList(list) == [kind |-> "list", list |-> list, str |-> <<>>]
TagStr(str) == [kind |-> "str", list |-> <<>>, str |-> str]
NoTags == [kind |-> "missing", list |-> <<>>, str |-> <<>>]

\* product.get('tags', []), split and trimmed when it is a string
product_tags(product) ==
  CASE product.tags.kind = "missing" -> <<>>
    [] product.tags.kind = "str" -> Map(Strip, SplitComma(product.tags.str))
    [] product.tags.kind = "list" -> product.tags.list

\* filter_products_by_tag that compares the product tags as they are
filter_products_by_tag_raw(products, filter_value) ==
  IF products = <<>> THEN <<>>
  ELSE LET normalized_possible == Map(normalize_tag, possible_tags(filter_value))
           keep(product) ==
             \E i \in 1..Len(normalized_possible) :
               normalized_possible[i] \in Range(product_tags(product))
       IN SelectSeq(products, keep)

filter_products_by_tag(products, filter_value) ==
  IF products = <<>> THEN <<>>
  ELSE LET normalized_possible == Map(normalize_tag, possible_tags(filter_value))
           keep(product) ==
             LET normalized_product_tags == Map(normalize_tag, product_tags(product))
             IN \E i \in 1..Len(normalized_possible) :
                  normalized_possible[i] \in Range(normalized_product_tags)
       IN SelectSeq(products, keep)

-----------------------------------------------------------------------------
(* Price filter *)

Digits == <<"0", "1", "2", "3", "4", "5", "6", "7", "8", "9">>
IsDigit(c) == \E k \in 1..10 : Digits[k] = c
DigitVal(c) == (CHOOSE k \in 1..10 : Digits[k] = c) - 1

RECURSIVE DecVal(_)
DecVal(s) ==
  IF s = <<>> THEN 0
  ELSE DecVal(SubSeq(s, 1, Len(s) - 1)) * 10 + DigitVal(s[Len(s)])

RECURSIVE Pow10(_)
Pow10(n) == IF n = 0 THEN 1 ELSE 10 * Pow10(n - 1)

\* the price field of a product: a string, None, or no such key
PriceStr(str) == [kind |-> "str", str |-> str]
PriceNone == [kind |-> "none", str |-> <<>>]
NoPrice == [kind |-> "missing", str |-> <<>>]

\* a float: a number n / scale with a sign, an infinity with a sign, or nan
Float(ok, class, neg, n, scale) ==
  [ok |-> ok, class |-> class, neg |-> neg, n |-> n, scale |-> scale]
NotFloat == Float(FALSE, "none", FALSE, 0, 1)

\* float(s) for a string without exponent and without digit separators:
\* whitespace around it is dropped, a sign may lead, "inf", "infinity" and
\* "nan" are read in any case, digits may have one point; ok is FALSE where
\* Python raises ValueError
float_str(s) ==
  LET t == Strip(s)
      signed == t # <<>> /\ t[1] \in {"-", "+"}
      neg == t # <<>> /\ t[1] = "-"
      body == IF signed THEN Tail(t) ELSE t
      word == Lower(body)
      dots == {i \in 1..Len(body) : body[i] = "."}
      dot == IF dots = {} THEN Len(body) + 1 ELSE CHOOSE i \in dots : TRUE
      int == SubSeq(body, 1, dot - 1)
      frac == SubSeq(body, dot + 1, Len(body))
  IN CASE word \in {<<"i", "n", "f">>,
                    <<"i", "n", "f", "i", "n", "i", "t", "y">>} ->
            Float(TRUE, "inf", neg, 0, 1)
       [] word = <<"n", "a", "n">> -> Float(TRUE, "nan", neg, 0, 1)
       [] OTHER ->
            IF /\ Cardinality(dots) <= 1
               /\ \A i \in 1..Len(body) : i \in dots \/ IsDigit(body[i])
               /\ Len(int) + Len(frac) > 0
            THEN Float(TRUE, "num", neg, DecVal(int \o frac), Pow10(Len(frac)))
            ELSE NotFloat

\* float(p.get('price', 0)): a missing key reads as 0, None raises TypeError
product_price(p) ==
  CASE p.price.kind = "missing" -> Float(TRUE, "num", FALSE, 0, 1)
    [] p.price.kind = "none" -> NotFloat
    [] p.price.kind = "str" -> float_str(p.price.str)

\* a price interval; inf for an upper end of float('inf')
Interval(min, max, inf) == [min |-> min, max |-> max, inf |-> inf]

price_mapping ==
  <<"u", "n", "d", "e", "r", "5", "0">> :> Interval(0, 50, FALSE) @@
  <<"5", "0", "-", "1", "5", "0">> :> Interval(50, 150, FALSE) @@
  <<"1", "5", "1", "-", "2", "5", "0">> :> Interval(151, 250, FALSE) @@
  <<"o", "v", "e", "r", "2", "5", "0">> :> Interval(251, 0, TRUE)

\* price_mapping.get(price_range, (0, float('inf')))
price_interval(price_range) ==
  IF price_range \in DOMAIN price_mapping THEN price_mapping[price_range]
  ELSE Interval(0, 0, TRUE)

\* min_price <= price <= max_price; every comparison with nan is False
Between(r, f) ==
  CASE f.class = "nan" -> FALSE
    [] f.class = "inf" -> ~f.neg /\ r.inf
    [] f.class = "num" ->
         LET v == IF f.neg THEN 0 - f.n ELSE f.n
         IN r.min * f.scale <= v /\ (r.inf \/ v <= r.max * f.scale)

filter_products_by_price(products, price_range) ==
  IF products = <<>> \/ price_range = <<>> THEN <<>>
  ELSE LET r == price_interval(price_range)
           keep(p) ==
             LET price == product_price(p)
             IN price.ok /\ Between(r, price)
       IN SelectSeq(products, keep)

-----------------------------------------------------------------------------
(* Identifier shortener *)

\* safe_callback_data with < for <= in the length test
safe_callback_data_lt(prefix, data) ==
  LET max_length == CallbackLimit - Len(prefix) - 1
  IN IF Len(data) < max_length
     THEN prefix \o <<"_">> \o data
     ELSE prefix \o <<"_">> \o Sha1Hex8(data)

safe_callback_data(prefix, data) ==
  LET max_length == CallbackLimit - Len(prefix) - 1
  IN IF Len(data) <= max_length
     THEN prefix \o <<"_">> \o data
     ELSE prefix \o <<"_">> \o Sha1Hex8(data)

-----------------------------------------------------------------------------
(* Catalog Source *)

\* a product of the backend: active, published, tagged "roses", priced 10.00
Node(h, t) ==
  [handle |-> h, title |-> t, onlineStoreUrl |-> <<"u">> \o t,
   variants |-> <<PriceStr(<<"1", "0", ".", "0", "0">>)>>,
   tags |-> TagList(<<<<"r", "o", "s", "e", "s">>>>), status |-> "ACTIVE",
   publishedOnCurrentPublication |-> TRUE]

\* outcomes of one request to the backend
NetOutcomes == {"ok", "request_error", "bad_json", "errors_only", "null_data"}

\* a decoded response body; isNone stands for Python's None
Body(isNone, hasData, dataIsNone, edges) ==
  [isNone |-> isNone, hasData |-> hasData, dataIsNone |-> dataIsNone,
   edges |-> edges]

NoBody == Body(TRUE, FALSE, TRUE, <<>>)

\* shopify_graphql_query: [exc, val]; exc when an exception other than a
\* RequestException leaves the function
shopify_graphql_query(net, edges) ==
  IF ~SHOPIFY_ENABLED THEN [exc |-> FALSE, val |-> NoBody]
  ELSE CASE net = "request_error" -> [exc |-> FALSE, val |-> NoBody]
         [] net = "bad_json"    -> [exc |-> TRUE, val |-> NoBody]
         [] net = "errors_only" -> [exc |-> FALSE, val |-> Body(FALSE, FALSE, TRUE, <<>>)]
         [] net = "null_data"   -> [exc |-> FALSE, val |-> Body(FALSE, TRUE, TRUE, <<>>)]
         [] net = "ok"          -> [exc |-> FALSE, val |-> Body(FALSE, TRUE, FALSE, edges)]

RECURSIVE WithPrice(_)
WithPrice(edges) ==
  IF edges = <<>> THEN <<>>
  ELSE LET product == Head(edges)
       IN IF product.variants # <<>>
          THEN <<[handle |-> product.handle, title |-> product.title,
                  onlineStoreUrl |-> product.onlineStoreUrl,
                  variants |-> product.variants, tags |-> product.tags,
                  status |-> product.status,
                  publishedOnCurrentPublication |->
                    product.publishedOnCurrentPublication,
                  price |-> product.variants[1]]>> \o WithPrice(Tail(edges))
          ELSE WithPrice(Tail(edges))

\* get_all_products without its try/except: an exception of the query or of
\* reading a body whose data is null reaches the caller
get_all_products_uncaught(net, edges) ==
  IF ~SHOPIFY_ENABLED THEN [exc |-> FALSE, val |-> <<>>]
  ELSE LET r == shopify_graphql_query(net, edges)
       IN IF r.exc THEN [exc |-> TRUE, val |-> <<>>]
          ELSE IF r.val.isNone \/ ~r.val.hasData THEN [exc |-> FALSE, val |-> <<>>]
          ELSE IF r.val.dataIsNone THEN [exc |-> TRUE, val |-> <<>>]
          ELSE [exc |-> FALSE, val |-> WithPrice(r.val.edges)]

\* get_all_products: [exc, val]; every failure is caught and becomes []
get_all_products(net, edges) ==
  IF ~SHOPIFY_ENABLED THEN [exc |-> FALSE, val |-> <<>>]
  ELSE LET r == shopify_graphql_query(net, edges)
       IN IF r.exc THEN [exc |-> FALSE, val |-> <<>>]
          ELSE IF r.val.isNone \/ ~r.val.hasData THEN [exc |-> FALSE, val |-> <<>>]
          ELSE IF r.val.dataIsNone THEN [exc |-> FALSE, val |-> <<>>]
          ELSE [exc |-> FALSE, val |-> WithPrice(r.val.edges)]

-----------------------------------------------------------------------------
(* Catalog cache *)

FreshContext == [has |-> FALSE, cached_products |-> <<>>, cache_time |-> 0]

\* cache_products with a lifetime of 300 seconds
cache_products_ttl300(ctx, now, net, edges, dur) ==
  IF ~ctx.has \/ ctx.cached_products = <<>> \/ now - ctx.cache_time > 300
  THEN LET r == get_all_products(net, edges)
       IN IF r.exc
          THEN [ctx |-> ctx, value |-> <<>>, calls |-> 1, exc |-> TRUE, dur |-> dur]
          ELSE [ctx |-> [has |-> TRUE, cached_products |-> r.val,
                         cache_time |-> now + dur],
                value |-> r.val, calls |-> 1, exc |-> FALSE, dur |-> dur]
  ELSE [ctx |-> ctx, value |-> ctx.cached_products, calls |-> 0, exc |-> FALSE,
        dur |-> 0]

\* cache_products that refreshes at an age of exactly TTL (>= for >)
cache_products_ge(ctx, now, net, edges, dur) ==
  IF ~ctx.has \/ ctx.cached_products = <<>> \/ now - ctx.cache_time >= TTL
  THEN LET r == get_all_products(net, edges)
       IN IF r.exc
          THEN [ctx |-> ctx, value |-> <<>>, calls |-> 1, exc |-> TRUE, dur |-> dur]
          ELSE [ctx |-> [has |-> TRUE, cached_products |-> r.val,
                         cache_time |-> now + dur],
                value |-> r.val, calls |-> 1, exc |-> FALSE, dur |-> dur]
  ELSE [ctx |-> ctx, value |-> ctx.cached_products, calls |-> 0, exc |-> FALSE,
        dur |-> 0]

\* cache_products that serves a stored empty list until it expires
cache_products_serve_empty(ctx, now, net, edges, dur) ==
  IF ~ctx.has \/ now - ctx.cache_time > TTL
  THEN LET r == get_all_products(net, edges)
       IN IF r.exc
          THEN [ctx |-> ctx, value |-> <<>>, calls |-> 1, exc |-> TRUE, dur |-> dur]
          ELSE [ctx |-> [has |-> TRUE, cached_products |-> r.val,
                         cache_time |-> now + dur],
                value |-> r.val, calls |-> 1, exc |-> FALSE, dur |-> dur]
  ELSE [ctx |-> ctx, value |-> ctx.cached_products, calls |-> 0, exc |-> FALSE,
        dur |-> 0]

\* cache_products that stores the fetched list and keeps the old cache_time
cache_products_keep_time(ctx, now, net, edges, dur) ==
  IF ~ctx.has \/ ctx.cached_products = <<>> \/ now - ctx.cache_time > TTL
  THEN LET r == get_all_products(net, edges)
       IN IF r.exc
          THEN [ctx |-> ctx, value |-> <<>>, calls |-> 1, exc |-> TRUE, dur |-> dur]
          ELSE [ctx |-> [has |-> TRUE, cached_products |-> r.val,
                         cache_time |-> ctx.cache_time],
                value |-> r.val, calls |-> 1, exc |-> FALSE, dur |-> dur]
  ELSE [ctx |-> ctx, value |-> ctx.cached_products, calls |-> 0, exc |-> FALSE,
        dur |-> 0]

\* cache_products(context) called at time now; the fetch takes dur seconds
cache_products(ctx, now, net, edges, dur) ==
  IF ~ctx.has \/ ctx.cached_products = <<>> \/ now - ctx.cache_time > TTL
  THEN LET r == get_all_products(net, edges)
       IN IF r.exc
          THEN [ctx |-> ctx, value |-> <<>>, calls |-> 1, exc |-> TRUE, dur |-> dur]
          ELSE [ctx |-> [has |-> TRUE, cached_products |-> r.val,
                         cache_time |-> now + dur],
                value |-> r.val, calls |-> 1, exc |-> FALSE, dur |-> dur]
  ELSE [ctx |-> ctx, value |-> ctx.cached_products, calls |-> 0, exc |-> FALSE,
        dur |-> 0]

-----------------------------------------------------------------------------
(* Token selection *)

RECURSIVE FirstWithHandle(_, _)
FirstWithHandle(edges, handle) ==
  IF edges = <<>> THEN <<>>
  ELSE IF Head(edges).handle = handle THEN <<Head(edges)>>
  ELSE FirstWithHandle(Tail(edges), handle)

\* get_shopify_product_with_tags(handle): <<>> for None, else <<product>>.
\* The backend answers products(first: 1, query: handle:"...") with the
\* product of that handle, if it has one.
get_shopify_product_with_tags(handle, net, edges) ==
  IF ~SHOPIFY_ENABLED THEN <<>>
  ELSE LET r == shopify_graphql_query(net, FirstWithHandle(edges, handle))
       IN IF r.exc THEN <<>>
          ELSE IF r.val.isNone THEN <<>>
          ELSE IF ~r.val.hasData THEN <<>>
          ELSE IF r.val.dataIsNone THEN <<>>
          ELSE IF r.val.edges = <<>> THEN <<>>
          ELSE <<[r.val.edges[1] EXCEPT !.handle = handle]>>

RECURSIVE FirstByHash(_, _)
FirstByHash(candidates, data) ==
  IF candidates = <<>> THEN <<>>
  ELSE IF Sha1Hex8(Head(candidates).handle) = data THEN <<Head(candidates)>>
  ELSE FirstByHash(Tail(candidates), data)

RECURSIVE LastByHash(_, _)
LastByHash(candidates, data) ==
  IF candidates = <<>> THEN <<>>
  ELSE LET rest == LastByHash(Tail(candidates), data)
       IN IF rest # <<>> THEN rest
          ELSE IF Sha1Hex8(Head(candidates).handle) = data
               THEN <<Head(candidates)>> ELSE <<>>

\* resolve that keeps the last candidate with the digest (no break)
resolve_last(data, candidates) ==
  IF Len(data) = HashLen
  THEN LastByHash(candidates, data)
  ELSE FirstWithHandle(candidates, data)

\* resolve that falls back to the first candidate when nothing matches
resolve_default_first(data, candidates) ==
  LET r == IF Len(data) = HashLen
           THEN FirstByHash(candidates, data)
           ELSE FirstWithHandle(candidates, data)
  IN IF r = <<>> /\ candidates # <<>> THEN <<Head(candidates)>> ELSE r

\* the lookup of product_detail in the cached list: <<>> for None
resolve(data, candidates) ==
  IF Len(data) = HashLen
  THEN FirstByHash(candidates, data)
  ELSE FirstWithHandle(candidates, data)

-----------------------------------------------------------------------------
(* Product lists *)

\* the first n elements of a list
First(s, n) == SubSeq(s, 1, IF Len(s) < n THEN Len(s) ELSE n)

\* get_shopify_products: the active products with a store URL among the
\* first 50 of the backend; every failure is caught and becomes []
get_shopify_products(net, edges) ==
  IF ~SHOPIFY_ENABLED THEN <<>>
  ELSE LET r == shopify_graphql_query(net, First(edges, 50))
           valid(product) ==
             product.status = "ACTIVE" /\ product.onlineStoreUrl # <<>>
       IN IF r.exc THEN <<>>
          ELSE IF r.val.isNone \/ ~r.val.hasData THEN <<>>
          ELSE IF r.val.dataIsNone THEN <<>>
          ELSE SelectSeq(r.val.edges, valid)

\* get_similar_products(current_handle, current_tags, limit).  The backend
\* answers products(first: 5, query: tag:"a" OR tag:"b") with the first five
\* products that carry one of the tags.
get_similar_products(current_handle, current_tags, limit, net, edges) ==
  IF current_tags = <<>> THEN <<>>
  ELSE LET tagged(product) ==
             Range(product_tags(product)) \cap Range(current_tags) # {}
           r == shopify_graphql_query(net, First(SelectSeq(edges, tagged), 5))
           similar(product) ==
             /\ product.handle # current_handle
             /\ product.status = "ACTIVE"
             /\ product.publishedOnCurrentPublication
             /\ product.onlineStoreUrl # <<>>
       IN IF r.exc THEN <<>>
          ELSE IF r.val.isNone \/ ~r.val.hasData THEN <<>>
          ELSE IF r.val.dataIsNone THEN <<>>
          ELSE First(SelectSeq(r.val.edges, similar), limit)

\* one product button: the identifier of its product and its callback_data
Button(handle, token) == [handle |-> handle, token |-> token]

\* callback_data=f"product_{handle}" for each product
RawButtons(products) ==
  [i \in 1..Len(products) |->
     Button(products[i].handle,
            <<"p", "r", "o", "d", "u", "c", "t", "_">> \o products[i].handle)]

\* callback_data=safe_callback_data("product", handle) for each product
SafeButtons(products) ==
  [i \in 1..Len(products) |->
     Button(products[i].handle,
            safe_callback_data(<<"p", "r", "o", "d", "u", "c", "t">>,
                               products[i].handle))]

\* the product buttons of the list shown last: which list, and its buttons
Buttons(list, items) == [list |-> list, items |-> items]

-----------------------------------------------------------------------------
(* Inputs *)

hShort == <<"r", "o", "s", "e">>
hEight == <<"r", "o", "s", "e", "-", "b", "o", "x">>

hLongX == Rep("a", LongLen - 1) \o <<"b">>
hLongY == <<"b">> \o Rep("a", LongLen - 1)
hHex == Sha1Hex8(hLongX)
hGhost == <<"t", "u", "p">>

pShort == Node(hShort, <<"1">>)
pEight == Node(hEight, <<"2">>)
pLongX == Node(hLongX, <<"3">>)
pLongY == Node(hLongY, <<"4">>)
pHex == Node(hHex, <<"5">>)

kProduct == <<"p", "r", "o", "d", "u", "c", "t">>

DetailProducts == {pShort, pEight, pLongX, pLongY, pHex}

\* the catalogs of SpecDetail: up to two products, in either order
DetailCatalogs ==
  {<<>>} \cup {<<p>> : p \in DetailProducts}
         \cup {c \in DetailProducts \X DetailProducts : c[1] # c[2]}

\* the tokens the Interaction Surface can present back: the buttons built
\* by safe_callback_data for some product, and one of a product long gone
DetailTokens ==
  {safe_callback_data(kProduct, p.handle) : p \in DetailProducts}
    \cup {safe_callback_data(kProduct, hGhost)}

DetailSessions == {"s1"}
DetailTickSteps == {601}

\* identifiers and prefixes of SpecEncode
EncodeChars == {"a", "U+00E9"}
EncodeIds ==
  {Rep(c, n) : c \in EncodeChars, n \in 0..MaxIdLen} \cup {Rep("a", 200)}
EncodePrefixes == {kProduct} \cup {Rep("p", n) : n \in 0..MaxPrefixLen}

CacheCatalogs == {<<>>, <<pShort>>, <<pEight, pShort>>}

\* tags of SpecNormalize: letters of both cases, space, tab, hyphen and
\* apostrophe
NormChars == {"a", "A", " ", "\t", "-", "'"}
RemovableChars == {" ", "-", "'"}
NormTags == UNION {[1..n -> NormChars] : n \in 0..MaxTagLen}

InsertAt(s, k, c) == SubSeq(s, 1, k - 1) \o <<c>> \o SubSeq(s, k, Len(s))
DeleteAt(s, k) == SubSeq(s, 1, k - 1) \o SubSeq(s, k + 1, Len(s))

\* the tags one edit away from t: the case of one letter changed, one
\* whitespace character added or removed at an end, one space, hyphen or
\* apostrophe inserted or removed anywhere
CaseEdits(t) ==
  {[t EXCEPT ![k] = c] : k \in {j \in 1..Len(t) : t[j] \in {"a", "A"}},
                         c \in {"a", "A"}}
EndEdits(t) ==
  {<<w>> \o t : w \in {" ", "\t"}} \cup {t \o <<w>> : w \in {" ", "\t"}}
    \cup (IF t # <<>> /\ t[1] \in Whitespace THEN {Tail(t)} ELSE {})
    \cup (IF t # <<>> /\ t[Len(t)] \in Whitespace
          THEN {SubSeq(t, 1, Len(t) - 1)} ELSE {})
InnerEdits(t) ==
  {InsertAt(t, k, c) : k \in 1..(Len(t) + 1), c \in RemovableChars}
    \cup {DeleteAt(t, k) : k \in {j \in 1..Len(t) : t[j] \in RemovableChars}}

OneEdit(t) == (CaseEdits(t) \cup EndEdits(t) \cup InnerEdits(t)) \ {t}

\* products of SpecTag: tags as one comma-delimited string, as a list, or
\* without the key
TagProduct(h, tags) == [handle |-> h, tags |-> tags]
qValentine == TagProduct(<<"q", "1">>, TagStr(<<"V", "a", "l", "e", "n", "t", "i", "n", "e", "'", "s", " ", "D", "a", "y", ",", " ", "r", "o", "s", "e", "s">>))
qBirthday == TagProduct(<<"q", "2">>, TagList(<<<<"b", "i", "r", "t", "h", "d", "a", "y">>>>))
qPeonies == TagProduct(<<"q", "3">>, TagList(<<<<"P", "e", "o", "n", "i", "e", "s">>>>))
qGetWell == TagProduct(<<"q", "4">>, TagStr(<<"g", "e", "t", "-", "w", "e", "l", "l", " ", ",", " ", "L", "I", "L", "Y">>))
qUntagged == TagProduct(<<"q", "5">>, NoTags)
qRoseBday == TagProduct(<<"q", "6">>, TagList(<<<<"R", "o", "s", "e">>, <<"B", "D", "A", "Y">>>>))
TagProducts == {qValentine, qBirthday, qPeonies, qGetWell, qUntagged, qRoseBday}
TagLists == UNION {[1..n -> TagProducts] : n \in 0..MaxProducts}

\* filter keys: the keys of TAG_MAPPINGS and two keys it does not have
FilterKeys == DOMAIN TAG_MAPPINGS
kValentine == <<"v", "a", "l", "e", "n", "t", "i", "n", "e">>
kPeonies == <<"p", "e", "o", "n", "i", "e", "s">>
kDaisies == <<"d", "a", "i", "s", "i", "e", "s">>
TagKeys == FilterKeys \cup {kPeonies, kDaisies}

\* products of SpecPrice: prices at and between the ends of the buckets, a
\* negative one, one that is no number, an infinite one, nan, None and a
\* product without the key
PriceProduct(h, price) == [handle |-> h, price |-> price]
PriceStrings ==
  {<<"0">>,
   <<"4", "9", ".", "9", "9">>,
   <<"5", "0">>,
   <<"5", "0", ".", "0", "1">>,
   <<"1", "5", "0">>,
   <<"1", "5", "0", ".", "5", "0">>,
   <<"1", "5", "1">>,
   <<"2", "5", "0">>,
   <<"2", "5", "0", ".", "9", "9">>,
   <<"2", "5", "1">>,
   <<"-", "5">>,
   <<"a", "b", "c">>,
   <<"i", "n", "f">>,
   <<"n", "a", "n">>}
PriceProducts ==
  {PriceProduct(str, PriceStr(str)) : str \in PriceStrings}
    \cup {PriceProduct(<<"n">>, PriceNone), PriceProduct(<<"m">>, NoPrice)}
PriceLists == UNION {[1..n -> PriceProducts] : n \in 0..MaxPriced}

\* the four buckets, a key that is none of them, and the empty key
PriceBuckets == DOMAIN price_mapping
kOther == <<"o", "t", "h", "e", "r">>
PriceKeys == PriceBuckets \cup {kOther, <<>>}

\* catalogs of SpecHandlers: a long identifier, a product tagged "birthday"
\* at 150.50, and a product without a store URL
pBirthday ==
  [Node(hEight, <<"2">>) EXCEPT !.tags = TagList(<<<<"b", "i", "r", "t", "h", "d", "a", "y">>>>),
                                !.variants = <<PriceStr(<<"1", "5", "0", ".", "5", "0">>)>>]
pUnlisted == [Node(hGhost, <<"6">>) EXCEPT !.onlineStoreUrl = <<>>]
HandlerCatalogs == {<<pLongX, pShort>>, <<pUnlisted, pBirthday>>}

\* callback data of the filter buttons, and one with two parts only
FilterTokens ==
  {<<"f", "i", "l", "t", "e", "r", "_", "p", "r", "i", "c", "e", "_", "u", "n", "d", "e", "r", "5", "0">>,
   <<"f", "i", "l", "t", "e", "r", "_", "o", "c", "c", "a", "s", "i", "o", "n", "_", "b", "i", "r", "t", "h", "d", "a", "y">>,
   <<"f", "i", "l", "t", "e", "r", "_", "x">>}

HandlerTokens == {safe_callback_data(kProduct, hShort)}

HandlerTickSteps == {601}

CacheSessions == {"s1", "s2"}

TickSteps == {1, 599}
FetchDurations == {0, 1}

\* what the last handler did: the list cache_products returned, the calls it
\* made to the Catalog Source, whether an exception left the handler, the
\* state the handler ended in, and for product_detail the token, how far it
\* got, whether the backend answered the lookup, the product of the backend
\* lookup and the product found in the cache
Out(op, s, net, r, fresh, result, token, stage, lookup, shown, resolved) ==
  [op |-> op, session |-> s, net |-> IF r.calls = 0 THEN "none" ELSE net,
   value |-> r.value, calls |-> r.calls, exc |-> r.exc, fresh |-> fresh,
   result |-> result, token |-> token, stage |-> stage, lookup |-> lookup,
   shown |-> shown, resolved |-> resolved]

NoCall == [value |-> <<>>, calls |-> 0, exc |-> FALSE]

NoOut ==
  Out("none", "none", "none", NoCall, FALSE, "none", <<>>, "none", "none", <<>>, <<>>)
NoEnc == [prefix |-> <<>>, data |-> <<>>, token |-> <<>>, again |-> <<>>,
          calls |-> 0]
\* two tags, the number of edits between them, and once normalize_tag was
\* applied: their normal forms and the normal form of the first normal form
NoNorm == [t1 |-> <<>>, t2 |-> <<>>, edits |-> 0, n1 |-> <<>>, n2 |-> <<>>,
           nn1 |-> <<>>, done |-> FALSE]
\* one application of a filter: its kind, the key, the products given, the
\* surface forms looked up, the products returned, and for a price filter
\* what each of the four buckets returns
NoFlt == [kind |-> "none", key |-> <<>>, products |-> <<>>, forms |-> <<>>,
          result |-> <<>>, all |-> <<>>, done |-> FALSE]
NoBtn == Buttons("none", <<>>)

-----------------------------------------------------------------------------
(* Actions *)

Tick(steps, max) ==
  /\ ticks < max
  /\ \E d \in steps : clock' = clock + d
  /\ ticks' = ticks + 1
  /\ UNCHANGED <<norm, flt, btn, shop, context, out, enc>>

CatalogChange(catalogs) ==
  /\ \E c \in catalogs : c # shop /\ shop' = c
  /\ UNCHANGED <<norm, flt, btn, clock, ticks, context, out, enc>>

\* category_menu: the handler that only fills the cache before it renders
CategoryMenu(s, durs, max) ==
  \E net \in NetOutcomes, d \in durs :
    LET r == cache_products(context[s], clock, net, shop, d)
    IN /\ (r.dur > 0 => ticks < max)
       /\ (r.calls = 0 => net = "ok" /\ d = 0)
       /\ context' = [context EXCEPT ![s] = r.ctx]
       /\ clock' = clock + r.dur
       /\ ticks' = IF r.dur > 0 THEN ticks + 1 ELSE ticks
       /\ out' = Out("get", s, net, r, ~context[s].has, "menu", <<>>, "none",
                     "none", <<>>, <<>>)
       /\ UNCHANGED <<norm, flt, btn, shop, enc>>

\* product_detail for the callback data token
ProductDetail(s, token, durs, max) ==
  \E lnet \in NetOutcomes, net \in NetOutcomes, d \in durs :
    IF FirstUnderscore(token) = 0
    THEN /\ lnet = "ok" /\ net = "ok" /\ d = 0
         /\ out' = Out("detail", s, "none", NoCall, ~context[s].has, "invalid",
                       token, "parse", "none", <<>>, <<>>)
         /\ UNCHANGED <<norm, flt, btn, clock, ticks, shop, context, enc>>
    ELSE
      LET handle == SplitFirst(token)[2]
          product == get_shopify_product_with_tags(handle, lnet, shop)
      IN IF product = <<>>
         THEN /\ net = "ok" /\ d = 0
              /\ out' = Out("detail", s, "none", NoCall, ~context[s].has,
                            "not_found", token, "lookup",
                            IF lnet = "ok" THEN "ok" ELSE "failed", <<>>, <<>>)
              /\ UNCHANGED <<norm, flt, btn, clock, ticks, shop, context, enc>>
         ELSE
           LET data == SplitFirst(token)[2]
               r == cache_products(context[s], clock, net, shop, d)
               found == resolve(data, r.value)
           IN /\ (r.dur > 0 => ticks < max)
              /\ (r.calls = 0 => net = "ok" /\ d = 0)
              /\ context' = [context EXCEPT ![s] = r.ctx]
              /\ clock' = clock + r.dur
              /\ ticks' = IF r.dur > 0 THEN ticks + 1 ELSE ticks
              /\ out' = Out("detail", s, net, r, ~context[s].has,
                            IF found = <<>> THEN "not_found" ELSE "detail",
                            token, "resolve", "ok", product, found)
              /\ UNCHANGED <<norm, flt, btn, shop, enc>>

\* apply_filter that keeps one cache for all sessions
ApplyFilter_shared(s, data, durs, max) ==
  \E net \in NetOutcomes, d \in durs :
    LET r == cache_products(context["s1"], clock, net, shop, d)
        parts == SplitFirst(SplitFirst(data)[2])
        filtered ==
          IF Len(parts) < 2 THEN <<>>
          ELSE IF parts[1] = <<"p", "r", "i", "c", "e">>
               THEN filter_products_by_price(r.value, parts[2])
               ELSE filter_products_by_tag(r.value, parts[2])
    IN /\ (r.dur > 0 => ticks < max)
       /\ (r.calls = 0 => net = "ok" /\ d = 0)
       /\ context' = [context EXCEPT !["s1"] = r.ctx]
       /\ clock' = clock + r.dur
       /\ ticks' = IF r.dur > 0 THEN ticks + 1 ELSE ticks
       /\ out' = Out("filter", s, net, r, ~context[s].has,
                     IF Len(parts) < 2 THEN "invalid"
                     ELSE IF filtered = <<>> THEN "empty" ELSE "list",
                     data, "none", "none", <<>>, <<>>)
       /\ btn' = IF Len(parts) < 2 THEN NoBtn
                 ELSE Buttons("filter", SafeButtons(filtered))
       /\ UNCHANGED <<norm, flt, shop, enc>>

\* apply_filter for the callback data "filter_<category>_<value>"
ApplyFilter(s, data, durs, max) ==
  \E net \in NetOutcomes, d \in durs :
    LET r == cache_products(context[s], clock, net, shop, d)
        parts == SplitFirst(SplitFirst(data)[2])
        filtered ==
          IF Len(parts) < 2 THEN <<>>
          ELSE IF parts[1] = <<"p", "r", "i", "c", "e">>
               THEN filter_products_by_price(r.value, parts[2])
               ELSE filter_products_by_tag(r.value, parts[2])
    IN /\ (r.dur > 0 => ticks < max)
       /\ (r.calls = 0 => net = "ok" /\ d = 0)
       /\ context' = [context EXCEPT ![s] = r.ctx]
       /\ clock' = clock + r.dur
       /\ ticks' = IF r.dur > 0 THEN ticks + 1 ELSE ticks
       /\ out' = Out("filter", s, net, r, ~context[s].has,
                     IF Len(parts) < 2 THEN "invalid"
                     ELSE IF filtered = <<>> THEN "empty" ELSE "list",
                     data, "none", "none", <<>>, <<>>)
       /\ btn' = IF Len(parts) < 2 THEN NoBtn
                 ELSE Buttons("filter", SafeButtons(filtered))
       /\ UNCHANGED <<norm, flt, shop, enc>>

\* show_all_products
ShowAllProducts(s, durs, max) ==
  \E net \in NetOutcomes, d \in durs :
    LET r == cache_products(context[s], clock, net, shop, d)
    IN /\ (r.dur > 0 => ticks < max)
       /\ (r.calls = 0 => net = "ok" /\ d = 0)
       /\ context' = [context EXCEPT ![s] = r.ctx]
       /\ clock' = clock + r.dur
       /\ ticks' = IF r.dur > 0 THEN ticks + 1 ELSE ticks
       /\ out' = Out("show_all", s, net, r, ~context[s].has,
                     IF r.value = <<>> THEN "empty" ELSE "list",
                     <<>>, "none", "none", <<>>, <<>>)
       /\ btn' = IF r.value = <<>> THEN NoBtn
                 ELSE Buttons("show_all", SafeButtons(r.value))
       /\ UNCHANGED <<norm, flt, shop, enc>>

\* products, the handler of /products
Products(s) ==
  \E net \in NetOutcomes :
    LET products == get_shopify_products(net, shop)
        available(product) ==
          product.onlineStoreUrl # <<>> /\ product.status = "ACTIVE"
        keyboard == RawButtons(SelectSeq(products, available))
    IN /\ out' = Out("products", s, "none", NoCall, ~context[s].has,
                     IF keyboard = <<>> THEN "empty" ELSE "list",
                     <<>>, "none", IF net = "ok" THEN "ok" ELSE "failed",
                     <<>>, <<>>)
       /\ btn' = IF keyboard = <<>> THEN NoBtn ELSE Buttons("products", keyboard)
       /\ UNCHANGED <<norm, flt, clock, ticks, shop, context, enc>>

\* back_to_menu
BackToMenu(s) ==
  \E net \in NetOutcomes :
    LET products_list == get_shopify_products(net, shop)
        listed(product) == product.onlineStoreUrl # <<>>
        keyboard == RawButtons(SelectSeq(products_list, listed))
    IN /\ out' = Out("back_to_menu", s, "none", NoCall, ~context[s].has,
                     IF keyboard = <<>> THEN "empty" ELSE "list",
                     <<>>, "none", IF net = "ok" THEN "ok" ELSE "failed",
                     <<>>, <<>>)
       /\ btn' = IF keyboard = <<>> THEN NoBtn
                 ELSE Buttons("back_to_menu", keyboard)
       /\ UNCHANGED <<norm, flt, clock, ticks, shop, context, enc>>

\* the end of product_detail, after the detail message was sent: the list
\* "You Might Also Like" for the product of the backend lookup
SimilarList(s) ==
  /\ out.op = "detail" /\ out.session = s /\ out.result = "detail"
  /\ out.shown # <<>> /\ product_tags(out.shown[1]) # <<>>
  /\ \E net \in NetOutcomes :
       LET handle == SplitFirst(out.token)[2]
           similar_products ==
             get_similar_products(handle, product_tags(out.shown[1]), 3, net, shop)
       IN /\ similar_products # <<>>
          /\ btn' = Buttons("similar", RawButtons(similar_products))
  /\ UNCHANGED <<norm, flt, clock, ticks, shop, context, out, enc>>

\* one call of safe_callback_data, and the same call once more
Encode ==
  /\ enc.calls = 0
  /\ enc' = [enc EXCEPT !.token = safe_callback_data(enc.prefix, enc.data),
                        !.calls = 1]
  /\ UNCHANGED <<norm, flt, btn, clock, ticks, shop, context, out>>

EncodeAgain ==
  /\ enc.calls = 1
  /\ enc' = [enc EXCEPT !.again = safe_callback_data(enc.prefix, enc.data),
                        !.calls = 2]
  /\ UNCHANGED <<norm, flt, btn, clock, ticks, shop, context, out>>

\* the second tag moves one edit away
EditTag ==
  /\ ~norm.done /\ norm.edits < MaxEdits
  /\ \E t \in OneEdit(norm.t2) :
       norm' = [norm EXCEPT !.t2 = t, !.edits = norm.edits + 1]
  /\ UNCHANGED <<clock, ticks, shop, context, out, enc, flt, btn>>

\* normalize_tag applied to both tags, and to its own result
Normalize ==
  /\ ~norm.done
  /\ norm' = [norm EXCEPT !.n1 = normalize_tag(norm.t1),
                          !.n2 = normalize_tag(norm.t2),
                          !.nn1 = normalize_tag(normalize_tag(norm.t1)),
                          !.done = TRUE]
  /\ UNCHANGED <<clock, ticks, shop, context, out, enc, flt, btn>>

\* filter_products_by_tag applied to the products and the key drawn
FilterByTag ==
  /\ ~flt.done /\ flt.kind = "tag"
  /\ flt' = [flt EXCEPT !.forms = possible_tags(flt.key),
                        !.result = filter_products_by_tag(flt.products, flt.key),
                        !.done = TRUE]
  /\ UNCHANGED <<clock, ticks, shop, context, out, enc, norm, btn>>

\* the same call once more on what the first call returned
FilterByTagAgain ==
  /\ flt.done /\ flt.kind = "tag" /\ flt.products # flt.result
  /\ flt' = [flt EXCEPT !.products = flt.result,
                        !.result = filter_products_by_tag(flt.result, flt.key)]
  /\ UNCHANGED <<clock, ticks, shop, context, out, enc, norm, btn>>

\* filter_products_by_price applied to the products and the key drawn, and to
\* the same products with each of the four buckets
FilterByPrice ==
  /\ ~flt.done /\ flt.kind = "price"
  /\ flt' = [flt EXCEPT
               !.result = filter_products_by_price(flt.products, flt.key),
               !.all = [b \in PriceBuckets |->
                          filter_products_by_price(flt.products, b)],
               !.done = TRUE]
  /\ UNCHANGED <<clock, ticks, shop, context, out, enc, norm, btn>>

\* the same call once more on what the first call returned
FilterByPriceAgain ==
  /\ flt.done /\ flt.kind = "price" /\ flt.products # flt.result
  /\ flt' = [flt EXCEPT
               !.products = flt.result,
               !.result = filter_products_by_price(flt.result, flt.key),
               !.all = [b \in PriceBuckets |->
                          filter_products_by_price(flt.result, b)]]
  /\ UNCHANGED <<clock, ticks, shop, context, out, enc, norm, btn>>

-----------------------------------------------------------------------------
(* Specification of the cache: two sessions, a clock, a changing catalog *)

Init ==
  /\ clock = 0
  /\ ticks = 0
  /\ shop \in CacheCatalogs
  /\ context = [s \in CacheSessions |-> FreshContext]
  /\ out = NoOut
  /\ enc = NoEnc
  /\ norm = NoNorm
  /\ flt = NoFlt
  /\ btn = NoBtn

Next ==
  \/ Tick(TickSteps, MaxTicks)
  \/ CatalogChange(CacheCatalogs)
  \/ \E s \in CacheSessions : CategoryMenu(s, FetchDurations, MaxTicks)

Spec == Init /\ [][Next]_vars

-----------------------------------------------------------------------------
(* Specification of token selection: one session, catalogs with short,     *)
(* eight-character, long and colliding identifiers                          *)

InitDetail ==
  /\ clock = 0
  /\ ticks = 0
  /\ shop \in DetailCatalogs
  /\ context = [s \in DetailSessions |-> FreshContext]
  /\ out = NoOut
  /\ enc = NoEnc
  /\ norm = NoNorm
  /\ flt = NoFlt
  /\ btn = NoBtn

NextDetail ==
  \/ Tick(DetailTickSteps, MaxDetailTicks)
  \/ CatalogChange(DetailCatalogs)
  \/ \E s \in DetailSessions : CategoryMenu(s, {0}, MaxDetailTicks)
  \/ \E s \in DetailSessions, token \in DetailTokens :
       ProductDetail(s, token, {0}, MaxDetailTicks)

SpecDetail == InitDetail /\ [][NextDetail]_vars

-----------------------------------------------------------------------------
(* Specification of the identifier shortener: safe_callback_data applied   *)
(* to identifiers and prefixes of every length up to the bounds             *)

InitEncode ==
  /\ clock = 0
  /\ ticks = 0
  /\ shop = <<>>
  /\ context = [s \in DetailSessions |-> FreshContext]
  /\ out = NoOut
  /\ \E prefix \in EncodePrefixes, data \in EncodeIds :
       enc = [NoEnc EXCEPT !.prefix = prefix, !.data = data]
  /\ norm = NoNorm
  /\ flt = NoFlt
  /\ btn = NoBtn

NextEncode ==
  \/ Encode
  \/ EncodeAgain

SpecEncode == InitEncode /\ [][NextEncode]_vars


-----------------------------------------------------------------------------
(* Specification of the tag normalizer: normalize_tag applied to two tags  *)
(* that differ by case, surrounding whitespace, spaces, hyphens and         *)
(* apostrophes                                                              *)

InitNormalize ==
  /\ clock = 0
  /\ ticks = 0
  /\ shop = <<>>
  /\ context = [s \in DetailSessions |-> FreshContext]
  /\ out = NoOut
  /\ enc = NoEnc
  /\ \E t \in NormTags : norm = [NoNorm EXCEPT !.t1 = t, !.t2 = t]
  /\ flt = NoFlt
  /\ btn = NoBtn

NextNormalize ==
  \/ EditTag
  \/ Normalize

SpecNormalize == InitNormalize /\ [][NextNormalize]_vars

-----------------------------------------------------------------------------
(* Specification of the tag filter: filter_products_by_tag applied to     *)
(* every list of up to MaxProducts tagged products and every key           *)

InitTag ==
  /\ clock = 0
  /\ ticks = 0
  /\ shop = <<>>
  /\ context = [s \in DetailSessions |-> FreshContext]
  /\ out = NoOut
  /\ enc = NoEnc
  /\ norm = NoNorm
  /\ \E ps \in TagLists, key \in TagKeys :
       flt = [NoFlt EXCEPT !.kind = "tag", !.products = ps, !.key = key]
  /\ btn = NoBtn

NextTag ==
  \/ FilterByTag
  \/ FilterByTagAgain

SpecTag == InitTag /\ [][NextTag]_vars

-----------------------------------------------------------------------------
(* Specification of the price filter: filter_products_by_price applied to *)
(* every list of up to MaxPriced priced products and every key             *)

InitPrice ==
  /\ clock = 0
  /\ ticks = 0
  /\ shop = <<>>
  /\ context = [s \in DetailSessions |-> FreshContext]
  /\ out = NoOut
  /\ enc = NoEnc
  /\ norm = NoNorm
  /\ \E ps \in PriceLists, key \in PriceKeys :
       flt = [NoFlt EXCEPT !.kind = "price", !.products = ps, !.key = key]
  /\ btn = NoBtn

NextPrice ==
  \/ FilterByPrice
  \/ FilterByPriceAgain

SpecPrice == InitPrice /\ [][NextPrice]_vars

-----------------------------------------------------------------------------
(* Specification of the handlers: two sessions that open menus, apply      *)
(* filters, list products and open product details in any order            *)

InitHandlers ==
  /\ clock = 0
  /\ ticks = 0
  /\ shop \in HandlerCatalogs
  /\ context = [s \in CacheSessions |-> FreshContext]
  /\ out = NoOut
  /\ enc = NoEnc
  /\ norm = NoNorm
  /\ flt = NoFlt
  /\ btn = NoBtn

NextHandlers ==
  \/ Tick(HandlerTickSteps, MaxHandlerTicks)
  \/ CatalogChange(HandlerCatalogs)
  \/ \E s \in CacheSessions, data \in FilterTokens :
       ApplyFilter(s, data, {0}, MaxHandlerTicks)
  \/ \E s \in CacheSessions : ShowAllProducts(s, {0}, MaxHandlerTicks)
  \/ \E s \in CacheSessions : Products(s)
  \/ \E s \in CacheSessions : BackToMenu(s)
  \/ \E s \in CacheSessions, token \in HandlerTokens :
       ProductDetail(s, token, {0}, MaxHandlerTicks)
  \/ \E s \in CacheSessions : SimilarList(s)

SpecHandlers == InitHandlers /\ [][NextHandlers]_vars

-----------------------------------------------------------------------------
(* Catalog cache: claims *)

FailedOutcomes == NetOutcomes \ {"ok"}

\* a step of category_menu for session s: the only steps that leave "get" in
\* out and change out or the context
GetStep(s) ==
  /\ out'.op = "get" /\ out'.session = s
  /\ <<out, context>>' # <<out, context>>

Age(s) == clock - context[s].cache_time

\* C1 (as stated): after a fetch at t0, every get() of the session before
\* t0+600 returns the stored snapshot, an empty one included, without a call
\* to the Catalog Source, and a get() at t0+601 makes exactly one call.
C1_AsStated ==
  [][\A s \in DOMAIN context :
       (GetStep(s) /\ context[s].has) =>
         /\ Age(s) < TTL =>
              out'.calls = 0 /\ out'.value = context[s].cached_products
         /\ Age(s) = TTL + 1 => out'.calls = 1]_vars

\* C1 (amended): after a fetch at t0 that stored a non-empty snapshot, every
\* get() of the session before t0+600 returns that snapshot without a call
\* to the Catalog Source; a get() at t0+601 makes exactly one call, whatever
\* the snapshot.
C1_CacheWindow ==
  [][\A s \in DOMAIN context :
       (GetStep(s) /\ context[s].has) =>
         /\ (Age(s) < TTL /\ context[s].cached_products # <<>>) =>
              /\ out'.calls = 0
              /\ out'.value = context[s].cached_products
              /\ context'[s] = context[s]
         /\ Age(s) = TTL + 1 => out'.calls = 1]_vars

\* a get() served from a non-empty entry that is 599 seconds old
C1_Witness ==
  /\ out.op = "get" /\ out.calls = 0 /\ out.value # <<>>
  /\ clock - context[out.session].cache_time = TTL - 1

\* C2 (as stated): get() fetches from the Catalog Source whenever
\* now - fetchedAt >= 600, in particular at an age of exactly 600.
C2_AsStated ==
  [][\A s \in DOMAIN context :
       (GetStep(s) /\ context[s].has /\ Age(s) >= TTL) =>
         out'.calls = 1]_vars

\* C2 (amended): a non-empty entry is valid iff its age is at most 600
\* seconds: get() fetches and replaces the entry whenever
\* now - fetchedAt > 600, and at an age of exactly 600 it serves the stored
\* non-empty entry without a fetch.
C2_ValidUpToTTL ==
  [][\A s \in DOMAIN context :
       (GetStep(s) /\ context[s].has) =>
         /\ Age(s) > TTL =>
              /\ out'.calls = 1
              /\ context'[s].cache_time = clock'
         /\ (Age(s) <= TTL /\ context[s].cached_products # <<>>) =>
              /\ out'.calls = 0
              /\ context'[s] = context[s]]_vars

\* a get() served from a non-empty entry that is exactly 600 seconds old
C2_Witness ==
  /\ out.op = "get" /\ out.calls = 0 /\ out.value # <<>>
  /\ clock - context[out.session].cache_time = TTL

\* C3: with a non-empty snapshot past its TTL, a get() whose refresh fetch
\* fails returns the previous snapshot, keeps it stored and raises nothing.
C3_StaleOnFailure ==
  [][\A s \in DOMAIN context :
       (/\ GetStep(s)
        /\ context[s].has /\ context[s].cached_products # <<>>
        /\ Age(s) > TTL
        /\ out'.net \in FailedOutcomes) =>
         /\ out'.value = context[s].cached_products
         /\ context'[s].cached_products = context[s].cached_products
         /\ ~out'.exc]_vars

\* C4: a get() whose fetch fails while the session has no snapshot returns
\* the empty sequence and raises nothing.
C4_EmptyOnFailure ==
  [][\A s \in DOMAIN context :
       (/\ GetStep(s)
        /\ ~context[s].has \/ context[s].cached_products = <<>>
        /\ out'.net \in FailedOutcomes) =>
         /\ out'.value = <<>>
         /\ ~out'.exc
         /\ out'.calls = 1]_vars

\* a first get() of a session whose fetch hit a body with data: null
C4_Witness ==
  /\ out.op = "get" /\ out.fresh /\ out.net = "null_data"
  /\ out.value = <<>> /\ ~out.exc

-----------------------------------------------------------------------------
(* Identifier shortener: claims *)

\* C5: the token safe_callback_data returns is at most 64 bytes, prefix and
\* separator included, for every prefix and identifier, also identifiers
\* with characters of more than one byte.
C5_TokenWithin64Bytes ==
  enc.calls >= 1 => ByteLen(enc.token) <= CallbackLimit

\* the payload of a callback data string: what follows its first "_"
Payload(token) == SplitFirst(token)[2]

\* positions of the candidates with identifier h / with digest d
PositionsOfHandle(candidates, h) ==
  {i \in 1..Len(candidates) : candidates[i].handle = h}
PositionsOfDigest(candidates, d) ==
  {i \in 1..Len(candidates) : Sha1Hex8(candidates[i].handle) = d}

Min(S) == CHOOSE i \in S : \A j \in S : i <= j

\* product_detail got as far as looking the payload up in the cached list
Resolved == out.op = "detail" /\ out.stage = "resolve"

\* C6: for every product P of the snapshot whose identifier has at most 56
\* characters, the payload of encode("product", P.identifier) is the
\* identifier itself, and resolving it against the snapshot returns the
\* product with that identifier.
C6_ShortRoundTrip ==
  Resolved =>
    \A i \in 1..Len(out.value) :
      LET h == out.value[i].handle
      IN (Len(h) <= CallbackLimit - Len(kProduct) - 1
          /\ out.token = safe_callback_data(kProduct, h)) =>
           /\ Payload(out.token) = h
           /\ out.resolved # <<>>
           /\ out.resolved[1].handle = h

\* the cache entry of session s can be served as it is
Valid(s) ==
  /\ context[s].has /\ context[s].cached_products # <<>>
  /\ clock - context[s].cache_time <= TTL

\* C7: for a product X of the current snapshot whose identifier is longer
\* than 56 characters, the token of X has an 8-character hexadecimal payload
\* and product_detail, given that token, ends with X's product found in the
\* snapshot (when no earlier candidate has the same digest), not in the
\* not-found state.  Stated for the runs in which the backend answers.
C7_LongRoundTrip ==
  (out.op = "detail" /\ out.lookup = "ok" /\ Valid(out.session)) =>
    LET snapshot == context[out.session].cached_products
    IN \A i \in 1..Len(snapshot) :
         LET h == snapshot[i].handle
         IN (/\ Len(h) > CallbackLimit - Len(kProduct) - 1
             /\ out.token = safe_callback_data(kProduct, h)
             /\ i = Min(PositionsOfDigest(snapshot, Sha1Hex8(h)))) =>
              /\ Len(Payload(out.token)) = HashLen
              /\ \A k \in 1..HashLen : \E j \in 1..16 :
                    Payload(out.token)[k] = HexDigits[j]
              /\ out.result = "detail"
              /\ out.resolved = <<snapshot[i]>>

\* the token of the last call of safe_callback_data, as the specification
\* of the shortener gives it
ReferenceToken(prefix, identifier) ==
  LET budget == 64 - Len(prefix) - 1
  IN IF Len(identifier) <= budget
     THEN prefix \o <<"_">> \o identifier
     ELSE prefix \o <<"_">> \o Sha1Hex8(identifier)

\* C8: encode(prefix, identifier) is prefix + "_" + identifier when the
\* identifier has at most 64 - len(prefix) - 1 characters and prefix + "_" +
\* the first 8 hexadecimal characters of its digest otherwise; a second call
\* with the same arguments returns the same token.
C8_EncodeReference ==
  /\ enc.calls >= 1 => enc.token = ReferenceToken(enc.prefix, enc.data)
  /\ enc.calls >= 2 => enc.again = enc.token

\* both calls made for an identifier one character over the budget of the
\* prefix "product": the token carries the 8-character digest
C8_Witness ==
  /\ enc.calls = 2 /\ enc.prefix = kProduct
  /\ Len(enc.data) = CallbackLimit - Len(kProduct)
  /\ Len(enc.token) = Len(kProduct) + 1 + HashLen

\* C9: when the 8-character payload is the digest of several candidates of
\* the snapshot, the lookup returns the first of them in candidate order;
\* presenting the same payload again against the same snapshot returns the
\* same product.
C9_FirstMatchWins ==
  [][(out'.op = "detail" /\ out'.stage = "resolve"
      /\ Len(Payload(out'.token)) = HashLen) =>
       LET S == PositionsOfDigest(out'.value, Payload(out'.token))
       IN /\ S # {} => out'.resolved = <<out'.value[Min(S)]>>
          /\ S = {} => out'.resolved = <<>>
          /\ (Resolved /\ out.token = out'.token /\ out.value = out'.value) =>
               out'.resolved = out.resolved]_vars

\* a payload that is the digest of two candidates, resolved to the first
C9_Witness ==
  /\ Resolved /\ Len(Payload(out.token)) = HashLen
  /\ Cardinality(PositionsOfDigest(out.value, Payload(out.token))) = 2
  /\ out.resolved = <<out.value[1]>>
  /\ out.result = "detail"

\* no candidate has the payload as its identifier or as its digest
NoMatch(data, candidates) ==
  PositionsOfHandle(candidates, data) = {} /\ PositionsOfDigest(candidates, data) = {}

\* a step of product_detail for session s: the only steps that leave "detail"
\* in out and change out or the context
DetailStep(s) ==
  /\ out'.op = "detail" /\ out'.session = s
  /\ <<out, context>>' # <<out, context>>

-----------------------------------------------------------------------------
(* Tag normalizer: claims *)

\* C11: two tags that differ only by case, by surrounding whitespace, or by
\* spaces, hyphens or apostrophes inserted or removed at any position have
\* the same normal form.
C11_NormalizeEquivalent ==
  norm.done => norm.n1 = norm.n2

\* C19: normalize is idempotent: normalize(normalize(t)) = normalize(t).
C19_NormalizeIdempotent ==
  norm.done => norm.nn1 = norm.n1

-----------------------------------------------------------------------------
(* Tag filter: claims *)

\* the normal forms of the surface forms of a key
Targets(key) == {normalize_tag(f) : f \in Range(possible_tags(key))}

\* the positions of the products that have a tag whose normal form is in a set
Tagged(products, forms) ==
  {i \in 1..Len(products) :
     \E t \in Range(product_tags(products[i])) : normalize_tag(t) \in forms}

\* the k-th smallest member of a set of positions
Kth(idx, k) == CHOOSE i \in idx : Cardinality({j \in idx : j <= i}) = k

\* result is products restricted to the positions idx, in the same order
Restricted(result, products, idx) ==
  /\ Len(result) = Cardinality(idx)
  /\ \A k \in 1..Len(result) : result[k] = products[Kth(idx, k)]

\* C12: the tag filter returns exactly the products with a tag whose normal
\* form is a normal form of a surface form of the key, in input order,
\* nothing added and nothing duplicated.
C12_TagFilterExact ==
  flt.done /\ flt.kind = "tag" =>
    Restricted(flt.result, flt.products,
               Tagged(flt.products, Targets(flt.key)))

\* key "valentine": a product tagged "Valentine's Day, roses" is returned
\* and one tagged only "birthday" is not
C12_Witness ==
  /\ flt.done /\ flt.kind = "tag" /\ flt.key = kValentine
  /\ flt.products = <<qBirthday, qValentine, qBirthday>>
  /\ flt.result = <<qValentine>>

\* C13 as stated: an empty product list and a key absent from the table
\* both give an empty result.
C13_AsStated ==
  flt.done /\ flt.kind = "tag"
    /\ (flt.products = <<>> \/ flt.key \notin FilterKeys)
    => flt.result = <<>>

\* C13: an empty product list gives an empty result; a key absent from the
\* table gives exactly the products with a tag whose normal form is the
\* normal form of the key itself.
C13_EmptyOrLiteralKey ==
  flt.done /\ flt.kind = "tag" =>
    /\ flt.products = <<>> => flt.result = <<>>
    /\ flt.key \notin FilterKeys =>
         Restricted(flt.result, flt.products,
                    Tagged(flt.products, {normalize_tag(flt.key)}))

\* the key "peonies" is not in the table and the product tagged "Peonies"
\* is returned
C13_Witness ==
  /\ flt.done /\ flt.kind = "tag" /\ flt.key = kPeonies
  /\ flt.key \notin FilterKeys
  /\ flt.products = <<qBirthday, qPeonies>>
  /\ flt.result = <<qPeonies>>

\* C15: the surface forms of every key, in the table or not, are not empty
\* and contain the key itself.
C15_FormsContainKey ==
  flt.done /\ flt.kind = "tag" =>
    flt.forms # <<>> /\ flt.key \in Range(flt.forms)

\* a key that is not in the table falls back to the key alone
C15_Witness ==
  /\ flt.done /\ flt.kind = "tag"
  /\ flt.key = kDaisies /\ flt.key \notin FilterKeys
  /\ flt.forms = <<kDaisies>>

-----------------------------------------------------------------------------
(* Price filter: claims *)

\* the price of the product is a string that reads as a finite number that
\* is not negative
FiniteNonNegative(p) ==
  /\ p.price.kind = "str"
  /\ float_str(p.price.str).ok
  /\ float_str(p.price.str).class = "num"
  /\ ~(float_str(p.price.str).neg /\ float_str(p.price.str).n > 0)

\* the positions of the products whose price is a finite number, not
\* negative, inside the interval of the bucket, both ends included
Priced(products, bucket) ==
  {i \in 1..Len(products) :
     /\ FiniteNonNegative(products[i])
     /\ Between(price_mapping[bucket], float_str(products[i].price.str))}

\* C14: for each of the four buckets the price filter returns, in input
\* order, exactly the products whose price reads as a finite number that is
\* not negative and lies in the interval of the bucket; products whose price
\* is missing, no number, not finite or negative are left out.
C14_PriceFilterExact ==
  flt.done /\ flt.kind = "price" /\ flt.key \in PriceBuckets =>
    Restricted(flt.result, flt.products, Priced(flt.products, flt.key))

\* C20: every product whose price reads as a finite number that is not
\* negative is returned for at least one of the four buckets.
C20_BucketsCover ==
  flt.done /\ flt.kind = "price" =>
    \A i \in 1..Len(flt.products) :
      FiniteNonNegative(flt.products[i]) =>
        \E b \in PriceBuckets : flt.products[i] \in Range(flt.all[b])

-----------------------------------------------------------------------------
(* Handlers: claims *)

\* a step of a handler: the only steps that change out, context or btn; the
\* session of the handler is out'.session
HandlerStep == <<out, context, btn>>' # <<out, context, btn>>

\* the handler that ended got the product list from cache_products
CalledGet ==
  \/ out.op \in {"get", "filter", "show_all"}
  \/ out.op = "detail" /\ out.stage = "resolve"

\* C16: a handler step of session a leaves the cache entry of every other
\* session as it was, and the list its cache_products returns is fixed by
\* a's own entry, the clock and the Catalog Source: the stored list without
\* a call while a's entry is valid, else the list of one fetch.
C16_SessionsIndependent ==
  [][HandlerStep =>
       LET a == out'.session
       IN /\ \A b \in DOMAIN context \ {a} : context'[b] = context[b]
          /\ (out' # out /\ CalledGet') =>
               IF Valid(a)
               THEN out'.calls = 0 /\ out'.value = context[a].cached_products
               ELSE /\ out'.calls = 1
                    /\ \E net \in NetOutcomes :
                         out'.value = get_all_products(net, shop).val]_vars

\* both sessions hold an entry, with different products, and the last
\* handler filtered the list of its own session
C16_Witness ==
  /\ context["s1"].has /\ context["s2"].has
  /\ context["s1"].cached_products # <<>>
  /\ context["s2"].cached_products # <<>>
  /\ context["s1"].cached_products # context["s2"].cached_products
  /\ out.op = "filter" /\ out.session = "s2" /\ out.result = "list"
  /\ out.value = context["s2"].cached_products

\* C17: the cache entry of a session changes only in a handler step of that
\* session that fetched, and then to the fetched list together with the time
\* after the fetch; after a handler step that took the list from the cache
\* and filtered, encoded or resolved, the entry is as it was.
C17_FullReplace ==
  [][\A s \in DOMAIN context :
       /\ context'[s] # context[s] =>
            /\ HandlerStep /\ out'.session = s /\ CalledGet'
            /\ out'.calls = 1
            /\ \E net \in NetOutcomes :
                 out'.value = get_all_products(net, shop).val
            /\ context'[s] = [has |-> TRUE, cached_products |-> out'.value,
                              cache_time |-> clock']
       /\ (HandlerStep /\ out'.session = s /\ CalledGet' /\ out'.calls = 0) =>
            context'[s] = context[s]]_vars

\* a refresh replaced an older entry: the list and the time are those of the
\* fetch the filter handler just made
C17_Witness ==
  /\ out.op = "filter" /\ out.calls = 1 /\ ~out.fresh
  /\ out.result = "list" /\ btn.list = "filter"
  /\ context[out.session].cache_time = clock /\ clock > TTL
  /\ context[out.session].cached_products = out.value

\* C18: in every product list shown, the reference of each product button is
\* the token safe_callback_data makes of the product's identifier, of at
\* most 64 bytes.
C18_ButtonsAreTokens ==
  \A i \in 1..Len(btn.items) :
    /\ btn.items[i].token = safe_callback_data(kProduct, btn.items[i].handle)
    /\ ByteLen(btn.items[i].token) <= CallbackLimit

-----------------------------------------------------------------------------
(* Empty snapshot: claims *)

\* C21: an empty stored list is never served from the cache: whenever a
\* session's stored list is empty, its next get() makes one call to the
\* Catalog Source, however recent the last fetch, and stores the result
\* with the time after that fetch.
C21_EmptyNeverServed ==
  [][\A s \in DOMAIN context :
       (GetStep(s) /\ context[s].has /\ context[s].cached_products = <<>>) =>
         /\ out'.calls = 1
         /\ context'[s].has
         /\ context'[s].cached_products = out'.value
         /\ context'[s].cache_time = clock']_vars

\* a session that already had an entry fetched again before any entry could
\* have expired, and the entry carries the later time
C21_Witness ==
  /\ out.op = "get" /\ ~out.fresh /\ out.calls = 1
  /\ 0 < clock /\ clock < TTL
  /\ context[out.session].cache_time = clock

-----------------------------------------------------------------------------
(* Product detail: claims *)

\* C22: whenever product_detail shows a product, the product of the backend
\* lookup (title, description, price, image) and the product found in the
\* cached list (order link) have the same identifier, that of the product
\* the token resolves to in the cached list.
C22_OneProductShown ==
  (Resolved /\ out.result = "detail") =>
    /\ out.shown # <<>> /\ out.resolved # <<>>
    /\ out.shown[1].handle = out.resolved[1].handle
    /\ out.shown[1].title = out.resolved[1].title

====
